---- MODULE Spec2Model ----
(***************************************************************************)
(* Model of the OPA bundle compiler and publisher of the policy service    *)
(* (package bundle: GenerateOPABundle, opaData.save, GetRevision) and of    *)
(* the HTTP handler that serves the bundle (handler.DownloadBundle).        *)
(*                                                                          *)
(* Compiles run in the goroutine that triggers them, several may run at the *)
(* same time, and requests are served concurrently; every statement of      *)
(* save() and GetRevision() that touches the package variable cacheFS is    *)
(* therefore a step of its own.                                             *)
(***************************************************************************)
EXTENDS Integers, Sequences, FiniteSets, TLC

(* ---------------------------- bounds ----------------------------------- *)

\* total number of GenerateOPABundle calls in one behaviour
MaxCompiles == 2
\* the RBAC store holds one of the contents 0..MaxContent when it is listed
MaxContent == 1

\* goroutines that trigger compiles
Compilers == {"c1", "c2"}

(* --------------------------- constants --------------------------------- *)

manifestPath == ".manifest"
policyPath == "authz.rego"
rolesPath == "roles/data.json"
rolebindingsPath == "bindings/data.json"
exemptionPath == "exemptions/data.json"

\* the order of the opaData literal built by GenerateOPABundle
Paths == <<manifestPath, policyPath, rolesPath, rolebindingsPath, exemptionPath>>

PathSet == {Paths[i] : i \in 1..Len(Paths)}

\* the nil value of the interface variable cacheFS
NilFs == 0

\* the empty revision token GetRevision returns on failure
EmptyToken == ""

\* If-None-Match values of a request ("" is also what an absent header reads as)
Headers == {"", "1", "stale"}

(* ----------------------------- state ----------------------------------- *)

VARIABLES
    uuids,      \* number of GenerateOPABundle calls (and of uuid.New() calls) so far
    cacheFS,    \* the package variable: NilFs or the id of a MemMapFs
    fss,        \* the reachable MemMapFs objects: id -> (path -> file)
    archive,    \* the bundle.tar.gz file under config.DataPath()
    cpc,        \* per compile goroutine: position in GenerateOPABundle/save
    cdata,      \* per compile goroutine: the opaData literal it built
    cidx,       \* per compile goroutine: index of the next file of the loop (0 outside it)
    cerr,       \* per compile goroutine: the error its last call returned ("": nil)
    cbefore,    \* history: what GetRevision returned when the running call began
    overlap,    \* history: another compile was in progress during this call
    lastAssign, \* history: revision of the call that assigned cacheFS last
    published,  \* history: revision and inputs of the calls that returned nil
    rpc,        \* the request: position in DownloadBundle/GetRevision
    rfs,        \* the request: the value of cacheFS it loaded
    revision,   \* the request: result of GetRevision
    matching,   \* the request: its If-None-Match header
    status,     \* the response: status code, 0 while none is written
    etag,       \* the response: the set of Etag header values (empty: no header)
    body,       \* the response: what c.File streamed
    rold,       \* history: the revision published last when the request began
    store,      \* the RBAC store: the roles, role bindings and policies List returns
    tables,     \* the package variables publicURLs, systemAdminURLs, adminURLs
    aliased,    \* TRUE iff the rule lists and the tables hold pointers to their entries
    compiled,   \* what the three generators returned last, NoOutput before
    bindingStore, \* the policy service: the names of the role bindings of the project
    project,    \* the project service: whether the project exists
    call,       \* the call of CreateProject under way: its arguments and locals
    update,     \* the call of UpdateProject under way: its arguments and locals
    helm,       \* the call of CreateOrUpdateHelmServiceFromGitRepo: arguments, position
    routine,    \* per path of the call: the locals and position of its goroutine
    repoLink,   \* the variable repoLink of the call, which its goroutines share
    helmRenderCharts, \* the slice of the call: its backing array and its length
    response,   \* the response of the call: SuccessServices and FailedServices
    services,   \* the service collection: the services createOrUpdateHelmService made
    handed      \* the list compareHelmVariable was called with

compileVars == <<cpc, cdata, cidx, cerr, cbefore, overlap, lastAssign, published>>
sharedVars == <<uuids, cacheFS, fss, archive>>
readerVars == <<rpc, rfs, revision, matching, status, etag, body, rold>>
genVars == <<store, tables, aliased, compiled>>
projectVars == <<bindingStore, project, call, update>>
helmVars == <<helm, routine, repoLink, helmRenderCharts, response, services, handed>>
vars == <<sharedVars, compileVars, readerVars, genVars, projectVars, helmVars>>

(* ------------------------- files and contents -------------------------- *)

\* a path that holds no file (by: the number of the call that wrote the file)
NoFile == [by |-> 0, data |-> <<>>]

\* afero.NewMemMapFs(): an empty file system
NewMemMapFs == [p \in PathSet |-> NoFile]

Exists(fs, p) == fs[p] # NoFile

\* uuid.New().String(): the n-th token minted, different from all before it
NewUUID(n) == ToString(n)

\* generateOPAManifest: a fresh token, whatever the inputs are
generateOPAManifestByContent(n, content) == [revision |-> ToString(content + 1), roots |-> <<"">>]
generateOPAManifest(n, content) == [revision |-> NewUUID(n), roots |-> <<"">>]

\* json.MarshalIndent of the manifest and json.Unmarshal back: the struct
\* has two exported, tagged fields, both survive the trip
MarshalManifest(m) == <<"revision", m.revision, "roots", m.roots>>
UnmarshalManifestRoots(bytes) == [revision |-> bytes[4][1], roots |-> bytes[4]]
UnmarshalManifest(bytes) == [revision |-> bytes[2], roots |-> bytes[4]]

\* the opaData literal of GenerateOPABundle: manifest first, then the policy
\* text and the three compiled inputs, each compiled from what the store held
BuildData(n, content) ==
    [p \in PathSet |->
        IF p = manifestPath THEN MarshalManifest(generateOPAManifest(n, content))
        ELSE IF p = policyPath THEN <<"authz">>
        ELSE <<p, content>>]

\* GetRevision on a loaded reference: the manifest's revision, or the empty
\* token when the file is not there
ReadRevision(ref) ==
    IF ~Exists(fss[ref], manifestPath) THEN EmptyToken
    ELSE UnmarshalManifest(fss[ref][manifestPath].data).revision

\* GetRevision run without interruption in the current state ("panic" stands
\* for the nil-interface call on a cacheFS that was never assigned)
GetRevisionNow == IF cacheFS = NilFs THEN "panic" ELSE ReadRevision(cacheFS)

\* the revision a compile goroutine minted for its current call
RevOf(c) == cdata[c].rev

\* the revision of the last call that returned nil, "" when there is none
LastGood == IF published = <<>> THEN "" ELSE published[Len(published)].rev

Active(c) == cpc[c] \in {"save", "write", "tar"}

(* ------------------------------ Init ----------------------------------- *)

NoData == [run |-> 0, rev |-> "", content |-> 0, files |-> [p \in PathSet |-> <<>>]]

\* no file at the path of the archive
NoArchive == [state |-> "none", files |-> NewMemMapFs]

InitBundle ==
    /\ uuids = 0
    /\ cacheFS = NilFs
    /\ fss = <<>>
    /\ archive = NoArchive
    /\ cpc = [c \in Compilers |-> "idle"]
    /\ cdata = [c \in Compilers |-> NoData]
    /\ cidx = [c \in Compilers |-> 0]
    /\ cerr = [c \in Compilers |-> ""]
    /\ cbefore = [c \in Compilers |-> ""]
    /\ overlap = [c \in Compilers |-> FALSE]
    /\ lastAssign = ""
    /\ published = <<>>
    /\ rpc = "idle"
    /\ rfs = NilFs
    /\ revision = EmptyToken
    /\ matching = ""
    /\ status = 0
    /\ etag = {}
    /\ body = NoArchive
    /\ rold = ""

\* the lists of an empty store
NoStore == [roles |-> <<>>, bindings |-> <<>>, policies |-> <<>>]

\* no static exemption entries
NoTables == [public |-> <<>>, privileged |-> <<>>, admin |-> <<>>]

\* before the generators have run
NoOutput == [state |-> "none"]

\* no call of CreateProject yet
NoCall ==
    [pc |-> "idle", admins |-> <<>>, public |-> FALSE, rbs |-> <<>>, idx |-> 0, err |-> "",
     made |-> {}, bound |-> 0, attempted |-> FALSE, undeleted |-> {}]

\* no call of UpdateProject yet
NoUpdate == [pc |-> "idle", public |-> FALSE, before |-> FALSE, err |-> "", n |-> 0]

\* the policy service and the project service before any project is made
InitProjectIdle ==
    /\ bindingStore = {}
    /\ project = "none"
    /\ call = NoCall
    /\ update = NoUpdate

\* no call of CreateOrUpdateHelmServiceFromGitRepo yet
NoHelm == [pc |-> "idle", paths |-> <<>>, source |-> ""]

NoResponse == [SuccessServices |-> <<>>, FailedServices |-> <<>>]

InitHelmIdle ==
    /\ helm = NoHelm
    /\ routine = <<>>
    /\ repoLink = <<>>
    /\ helmRenderCharts = [array |-> <<>>, len |-> 0]
    /\ response = NoResponse
    /\ services = {}
    /\ handed = <<>>

Init ==
    /\ InitBundle
    /\ InitProjectIdle
    /\ InitHelmIdle
    /\ store = NoStore
    /\ tables = NoTables
    /\ aliased = FALSE
    /\ compiled = NoOutput

(* ------------------- GenerateOPABundle and save ------------------------ *)

\* GenerateOPABundle up to the call of save: list the three collections
\* (content: what the store holds then) and build the opaData literal, the
\* manifest with its fresh revision first
Begin(c, content) ==
    /\ cpc[c] \in {"idle", "returned"}
    /\ uuids < MaxCompiles
    /\ uuids' = uuids + 1
    /\ cdata' = [cdata EXCEPT ![c] = [run |-> uuids + 1,
                                       rev |-> generateOPAManifest(uuids + 1, content).revision,
                                       content |-> content,
                                       files |-> BuildData(uuids + 1, content)]]
    /\ cpc' = [cpc EXCEPT ![c] = "save"]
    /\ cidx' = [cidx EXCEPT ![c] = 0]
    /\ cerr' = [cerr EXCEPT ![c] = ""]
    /\ cbefore' = [cbefore EXCEPT ![c] = GetRevisionNow]
    /\ overlap' = [d \in Compilers |->
                     IF d = c THEN \E e \in Compilers \ {c} : Active(e)
                     ELSE IF Active(d) THEN TRUE ELSE overlap[d]]
    /\ UNCHANGED <<cacheFS, fss, archive, lastAssign, published, readerVars, genVars, projectVars, helmVars>>

\* the three collections GenerateOPABundle lists
Inputs == {"roles", "bindings", "policies"}

\* the content of an empty collection
EmptyInput == 0

\* List() of one collection: what the store holds, nothing when it fails
ListColl(stored, fails) == IF fails THEN EmptyInput ELSE stored

\* GenerateOPABundle, lines 319-330: a failed List is logged, no error is
\* kept for the caller and the compile goes on
ListErrorReturned(failed) == IF failed = {} THEN "" ELSE "list"
ListError(failed) == ""

\* the opaData literal built from the three lists: the roles are compiled
\* from roles and policies, the bindings from the role bindings, the
\* exemptions from the policies
BuildListed(n, listed) ==
    [p \in PathSet |->
        IF p = manifestPath THEN MarshalManifest(generateOPAManifest(n, listed))
        ELSE IF p = policyPath THEN <<"authz">>
        ELSE IF p = rolesPath THEN <<p, listed["roles"], listed["policies"]>>
        ELSE IF p = rolebindingsPath THEN <<p, listed["bindings"]>>
        ELSE <<p, listed["policies"]>>]

\* GenerateOPABundle up to the call of save, the lists in failed failing
\* while the store holds content in each collection
BeginList(c, content, failed) ==
    /\ cpc[c] \in {"idle", "returned"}
    /\ uuids < MaxCompiles
    /\ uuids' = uuids + 1
    /\ LET listed == [i \in Inputs |-> ListColl(content, i \in failed)] IN
         cdata' = [cdata EXCEPT ![c] = [run |-> uuids + 1,
                                         rev |-> generateOPAManifest(uuids + 1, listed).revision,
                                         content |-> listed,
                                         stored |-> content,
                                         failed |-> failed,
                                         files |-> BuildListed(uuids + 1, listed)]]
    /\ cerr' = [cerr EXCEPT ![c] = ListError(failed)]
    /\ cpc' = [cpc EXCEPT ![c] = IF ListError(failed) = "" THEN "save" ELSE "returned"]
    /\ cidx' = [cidx EXCEPT ![c] = 0]
    /\ cbefore' = [cbefore EXCEPT ![c] = IF ListError(failed) = "" THEN GetRevisionNow ELSE ""]
    /\ overlap' = [d \in Compilers |->
                     IF d = c THEN \E e \in Compilers \ {c} : Active(e)
                     ELSE IF Active(d) THEN TRUE ELSE overlap[d]]
    /\ UNCHANGED <<cacheFS, fss, archive, lastAssign, published, readerVars, genVars, projectVars, helmVars>>

\* the file systems still referenced: by cacheFS or by a running GetRevision
\* (the others are garbage)
Collect(f, live) == [i \in (DOMAIN f) \cap live |-> f[i]]

\* save, line 104: cacheFS = afero.NewMemMapFs()
AssignFs(c) ==
    /\ cpc[c] = "save"
    /\ fss' = (cdata[c].run :> NewMemMapFs) @@ Collect(fss, {rfs})
    /\ cacheFS' = cdata[c].run
    /\ lastAssign' = RevOf(c)
    /\ cidx' = [cidx EXCEPT ![c] = 1]
    /\ cpc' = [cpc EXCEPT ![c] = "write"]
    /\ UNCHANGED <<uuids, archive, cdata, cerr, cbefore, overlap, published, readerVars, genVars, projectVars, helmVars>>

\* the failures one round of the loop can end in: the policy text is a
\* []byte and is not marshalled
FailKinds(p) == IF p = policyPath THEN {"mkdir", "write"} ELSE {"marshal", "mkdir", "write"}

\* one round of the loop of save that succeeds: marshal, MkdirAll and
\* WriteFile on whatever cacheFS refers to now
WriteFileOk(c) ==
    /\ cpc[c] = "write"
    /\ LET p == Paths[cidx[c]] IN
         fss' = [fss EXCEPT ![cacheFS][p] = [by |-> cdata[c].run, data |-> cdata[c].files[p]]]
    /\ IF cidx[c] = Len(Paths)
         THEN /\ cpc' = [cpc EXCEPT ![c] = "tar"]
              /\ cidx' = cidx
         ELSE /\ cidx' = [cidx EXCEPT ![c] = cidx[c] + 1]
              /\ cpc' = cpc
    /\ UNCHANGED <<uuids, cacheFS, archive, cdata, cerr, cbefore, overlap, lastAssign, published, readerVars, genVars, projectVars, helmVars>>

\* one round of the loop of save that fails: log and return err
WriteFileFailGoesOn(c) ==
    /\ cpc[c] = "write"
    /\ IF cidx[c] = Len(Paths)
         THEN /\ cpc' = [cpc EXCEPT ![c] = "tar"]
              /\ cidx' = cidx
         ELSE /\ cidx' = [cidx EXCEPT ![c] = cidx[c] + 1]
              /\ cpc' = cpc
    /\ UNCHANGED <<sharedVars, cdata, cerr, cbefore, overlap, lastAssign, published, readerVars, genVars, projectVars, helmVars>>
WriteFileFail(c) ==
    /\ cpc[c] = "write"
    /\ \E k \in FailKinds(Paths[cidx[c]]) : cerr' = [cerr EXCEPT ![c] = k]
    /\ cpc' = [cpc EXCEPT ![c] = "returned"]
    /\ cidx' = [cidx EXCEPT ![c] = 0]
    /\ cbefore' = [cbefore EXCEPT ![c] = ""]
    /\ UNCHANGED <<sharedVars, cdata, overlap, lastAssign, published, readerVars, genVars, projectVars, helmVars>>

\* fsutil.Tar of the tree cacheFS refers to now
TarArchive(fs) == [state |-> "ok", files |-> fs]

\* what a failed Tar can leave at the path: the file as it was, or a cut one
TarLeftovers(fs) == {archive, [state |-> "cut", files |-> NewMemMapFs]}

\* save, lines 130-137, the archive step succeeds: return nil
TarOk(c) ==
    /\ cpc[c] = "tar"
    /\ archive' = TarArchive(fss[cacheFS])
    /\ cpc' = [cpc EXCEPT ![c] = "returned"]
    /\ published' = Append(published, [rev |-> RevOf(c), content |-> cdata[c].content])
    /\ cidx' = [cidx EXCEPT ![c] = 0]
    /\ cbefore' = [cbefore EXCEPT ![c] = ""]
    /\ UNCHANGED <<uuids, cacheFS, fss, cdata, cerr, overlap, lastAssign, readerVars, genVars, projectVars, helmVars>>

\* save, lines 132-135, the archive step fails: log and return err
TarFail(c) ==
    /\ cpc[c] = "tar"
    /\ archive' \in TarLeftovers(fss[cacheFS])
    /\ cerr' = [cerr EXCEPT ![c] = "tar"]
    /\ cpc' = [cpc EXCEPT ![c] = "returned"]
    /\ cidx' = [cidx EXCEPT ![c] = 0]
    /\ cbefore' = [cbefore EXCEPT ![c] = ""]
    /\ UNCHANGED <<uuids, cacheFS, fss, cdata, overlap, lastAssign, published, readerVars, genVars, projectVars, helmVars>>

(* -------------------- DownloadBundle and GetRevision ------------------- *)

\* DownloadBundle, lines 31-34: the status of the response
DownloadStatusNoGuard(rev, match) == IF rev = match THEN 304 ELSE 200
DownloadStatus(rev, match) == IF rev # EmptyToken /\ rev = match THEN 304 ELSE 200

\* DownloadBundle, lines 37-39: the Etag header of a 200 response
EtagHeaderNone(rev) == {}
EtagHeader(rev) == IF rev # EmptyToken THEN {rev} ELSE {}

\* a request arrives and GetRevision loads cacheFS (line 344); calling
\* ReadFile on a nil interface panics
Request ==
    /\ rpc = "idle"
    /\ rfs' = cacheFS
    /\ rold' = LastGood
    /\ rpc' = IF cacheFS = NilFs THEN "panic" ELSE "read"
    /\ UNCHANGED <<genVars, projectVars, helmVars, sharedVars, compileVars, revision, matching, status, etag, body>>

ReadyAfterCompiles == rpc = "read" /\ \A c \in Compilers : ~Active(c)
\* GetRevision goes on to ReadFile as soon as it has loaded cacheFS: there is
\* no lock to take and no channel to wait on
ReadyToRead == rpc = "read"

\* GetRevision, lines 344-356: read and parse the manifest of the loaded fs
ReadManifest ==
    /\ ReadyToRead
    /\ revision' = ReadRevision(rfs)
    /\ rfs' = NilFs
    /\ fss' = Collect(fss, {cacheFS})
    /\ rpc' = "respond"
    /\ UNCHANGED <<genVars, projectVars, helmVars, uuids, cacheFS, archive, compileVars, matching, status, etag, body, rold>>

\* DownloadBundle, lines 30-39: compare with If-None-Match, write the headers
Respond(h) ==
    /\ rpc = "respond"
    /\ matching' = h
    /\ status' = DownloadStatus(revision, h)
    /\ IF DownloadStatus(revision, h) = 304
         THEN /\ etag' = {}
              /\ rpc' = "done"
         ELSE /\ etag' = EtagHeader(revision)
              /\ rpc' = "file"
    /\ UNCHANGED <<genVars, projectVars, helmVars, sharedVars, compileVars, rfs, revision, body, rold>>

\* DownloadBundle, line 40: c.File streams the archive as it is now
ServeFile ==
    /\ rpc = "file"
    /\ body' = archive
    /\ rpc' = "done"
    /\ UNCHANGED <<genVars, projectVars, helmVars, sharedVars, compileVars, rfs, revision, matching, status, etag, rold>>

FinishAndDrop ==
    /\ rpc \in {"done", "panic"}
    /\ rpc' = "idle"
    /\ rfs' = NilFs
    /\ revision' = EmptyToken
    /\ matching' = ""
    /\ status' = 0
    /\ etag' = {}
    /\ body' = NoArchive
    /\ rold' = ""
    /\ archive' = NoArchive
    /\ UNCHANGED <<genVars, projectVars, helmVars, uuids, cacheFS, fss, compileVars>>
\* the request is over (answered, or its panic recovered by the server)
Finish ==
    /\ rpc \in {"done", "panic"}
    /\ rpc' = "idle"
    /\ rfs' = NilFs
    /\ revision' = EmptyToken
    /\ matching' = ""
    /\ status' = 0
    /\ etag' = {}
    /\ body' = NoArchive
    /\ rold' = ""
    /\ UNCHANGED <<genVars, projectVars, helmVars, sharedVars, compileVars>>

(* ------------------------------ Next ----------------------------------- *)

\* the compiles alone: every interleaving of the compile goroutines
Next ==
    \/ \E c \in Compilers, content \in 0..MaxContent : Begin(c, content)
    \/ \E c \in Compilers : AssignFs(c)
    \/ \E c \in Compilers : WriteFileOk(c)
    \/ \E c \in Compilers : WriteFileFail(c)
    \/ \E c \in Compilers : TarOk(c)
    \/ \E c \in Compilers : TarFail(c)

Spec == Init /\ [][Next]_vars

\* the goroutine whose compiles run while requests are served
Trigger == "c1"

\* requests served while one goroutine compiles again and again
NextServe ==
    \/ \E content \in 0..MaxContent : Begin(Trigger, content)
    \/ AssignFs(Trigger)
    \/ WriteFileOk(Trigger)
    \/ WriteFileFail(Trigger)
    \/ TarOk(Trigger)
    \/ TarFail(Trigger)
    \/ Request
    \/ ReadManifest
    \/ \E h \in Headers : Respond(h)
    \/ ServeFile
    \/ Finish

SpecServe == Init /\ [][NextServe]_vars

\* the same under the scheduler of the Go runtime: a goroutine that can take
\* its next step takes it; the trigger of a compile and the arrival of a
\* request are events from outside and owe nothing
SpecFair ==
    /\ Init
    /\ [][NextServe]_vars
    /\ WF_vars(AssignFs(Trigger))
    /\ WF_vars(WriteFileOk(Trigger) \/ WriteFileFail(Trigger))
    /\ WF_vars(TarOk(Trigger) \/ TarFail(Trigger))
    /\ WF_vars(ReadManifest)
    /\ WF_vars(\E h \in Headers : Respond(h))
    /\ WF_vars(ServeFile)
    /\ WF_vars(Finish)

\* one goroutine compiles again and again while lists of the store fail
NextList ==
    \/ \E content \in 0..MaxContent, failed \in SUBSET Inputs : BeginList(Trigger, content, failed)
    \/ AssignFs(Trigger)
    \/ WriteFileOk(Trigger)
    \/ WriteFileFail(Trigger)
    \/ TarOk(Trigger)
    \/ TarFail(Trigger)

SpecList == Init /\ [][NextList]_vars

(* ------------------------- properties ---------------------------------- *)

\* GetRevision of the request has returned
GotRevision == rpc \in {"respond", "file", "done"}

\* the response of the request has been written
Responded == rpc \in {"file", "done"}

\* every revision minted so far
Minted == {NewUUID(n) : n \in 1..uuids}

\* c returns from GenerateOPABundle in this step
Returns(c) == cpc[c] \in {"write", "tar"} /\ cpc'[c] = "returned"

\* C1: a GetRevision that runs after a generation has been published returns
\* the revision of a published or of the new generation, never the empty token
C1_AtomicPublish ==
    (GotRevision /\ rold # "") => (revision # EmptyToken /\ revision \in Minted)

\* C2: when a compile that no other compile overlapped returns an error,
\* GetRevision returns what it returned before the compile began
C2_FailedCompileKeepsPrevious ==
    [][\A c \in Compilers :
         (Returns(c) /\ cerr'[c] # "" /\ ~overlap[c]) => GetRevisionNow' = cbefore[c]]_vars

\* C3: the generation cacheFS refers to never lacks one of the five files
C3_PublishedGenerationComplete ==
    cacheFS # NilFs => \A p \in PathSet : Exists(fss[cacheFS], p)

\* the current generation has all five files, all written by one compile
WholeGeneration ==
    /\ cacheFS # NilFs
    /\ \A p \in PathSet : Exists(fss[cacheFS], p)
    /\ \A p, q \in PathSet : fss[cacheFS][p].by = fss[cacheFS][q].by

\* C4 as stated: right after GenerateOPABundle returns nil, GetRevision
\* returns the revision this compile minted (stated for the returns that
\* leave a whole generation of one compile published, so that a violation is
\* a revision of another compile and not a missing manifest)
C4_RoundTripAlways ==
    [][\A c \in Compilers :
         (Returns(c) /\ cerr'[c] = "" /\ WholeGeneration') => GetRevisionNow' = RevOf(c)]_vars

\* C4 amended: right after a GenerateOPABundle that no other compile
\* overlapped returns nil, GetRevision returns the revision this compile minted
C4_RoundTrip ==
    [][\A c \in Compilers :
         (Returns(c) /\ cerr'[c] = "" /\ ~overlap[c]) => GetRevisionNow' = RevOf(c)]_vars

C4_Witness ==
    \E c \in Compilers :
        /\ cpc[c] = "returned" /\ cerr[c] = "" /\ ~overlap[c]
        /\ uuids = cdata[c].run
        /\ GetRevisionNow = RevOf(c)
        /\ RevOf(c) # EmptyToken

C7_FailsSoft == rpc # "panic"

\* C8: once two concurrently triggered compiles have both returned nil,
\* GetRevision returns the revision of the one that published last (the
\* last to assign cacheFS, or the last to return: either reading)
C8_LastPublishWins ==
    (/\ \A c \in Compilers : cpc[c] = "returned" /\ cerr[c] = "" /\ overlap[c]
     /\ uuids = Cardinality(Compilers))
        => GetRevisionNow \in {lastAssign, LastGood}

\* C9: when no compile is in progress, the files of the current generation
\* were all written by one compile
C9_OneCompilePerGeneration ==
    (/\ cacheFS # NilFs
     /\ \A c \in Compilers : cpc[c] = "returned" /\ cerr[c] = "")
        => \A p, q \in PathSet : fss[cacheFS][p].by = fss[cacheFS][q].by

\* C10: any two compiles that returned nil published different revisions,
\* also when they compiled the same inputs
C10_FreshRevision ==
    \A i, j \in DOMAIN published :
        i # j => published[i].rev # published[j].rev

C10_Witness ==
    \E i, j \in DOMAIN published :
        /\ i # j
        /\ published[i].content = published[j].content
        /\ published[i].rev # published[j].rev

\* the paths of the files of the current generation that the running or
\* last call of c wrote
WrittenBy(c) ==
    IF cacheFS = NilFs THEN {}
    ELSE {i \in 1..Len(Paths) : fss[cacheFS][Paths[i]].by = cdata[c].run}

\* the errors a step of save returns
SaveErrors == {"marshal", "mkdir", "write", "tar"}

\* C11: a call in which lists failed is not aborted and returns no error
\* for them: it runs save, and when save succeeds the generation published
\* has the fresh revision of the call, the failed inputs compiled as empty
\* and the other inputs compiled from what the store held
C11_ListFailureDegrades ==
    (cpc[Trigger] = "returned" /\ cdata[Trigger].failed # {}) =>
        /\ cerr[Trigger] \in SaveErrors \cup {""}
        /\ cacheFS = cdata[Trigger].run
        /\ cerr[Trigger] = "" =>
            /\ GetRevisionNow = RevOf(Trigger)
            /\ \A i \in 1..(Len(published) - 1) : published[i].rev # RevOf(Trigger)
            /\ \A p \in PathSet : fss[cacheFS][p].data = cdata[Trigger].files[p]
            /\ \A i \in Inputs :
                 cdata[Trigger].content[i] =
                     IF i \in cdata[Trigger].failed THEN EmptyInput ELSE cdata[Trigger].stored

C11_Witness ==
    /\ cpc[Trigger] = "returned"
    /\ cerr[Trigger] = ""
    /\ cdata[Trigger].failed = {"roles"}
    /\ cdata[Trigger].stored # EmptyInput
    /\ fss[cacheFS][rolesPath].data = <<rolesPath, EmptyInput, cdata[Trigger].stored>>
    /\ fss[cacheFS][rolebindingsPath].data = <<rolebindingsPath, cdata[Trigger].stored>>
    /\ GetRevisionNow = RevOf(Trigger)

\* C12: GenerateOPABundle returns an error exactly when a step of save
\* failed: it returns nil only with all five files written and archived, and
\* after a failed step it has written no later file (the files it wrote are
\* the ones before the failing step)
C12_SaveErrorsReported ==
    cpc[Trigger] = "returned" =>
        /\ \A i, j \in 1..Len(Paths) : (i < j /\ j \in WrittenBy(Trigger)) => i \in WrittenBy(Trigger)
        /\ cerr[Trigger] = "" <=>
             (/\ WrittenBy(Trigger) = 1..Len(Paths)
              /\ archive = TarArchive(fss[cacheFS]))
        /\ cerr[Trigger] \in SaveErrors \ {"tar"} => WrittenBy(Trigger) # 1..Len(Paths)
        /\ cerr[Trigger] = "tar" => WrittenBy(Trigger) = 1..Len(Paths)

C12_Witness ==
    /\ cpc[Trigger] = "returned"
    /\ cerr[Trigger] = "write"
    /\ WrittenBy(Trigger) = {1, 2}
    /\ ~Exists(fss[cacheFS], rolesPath)

(* ------------------- the generators ------------------------------------ *)

\* the strings the comparators meet, in the byte order of Go's < on strings
Strings == <<"*", "/api/builds", "/api/health", "/api/tests", "/api/users",
             "/api/wf", "DELETE", "GET", "PATCH", "POST", "PUT",
             "admin", "proj1", "proj2", "u1", "u2", "viewer">>

Pos(a) == CHOOSE i \in DOMAIN Strings : Strings[i] = a

\* a < b on strings
StrLess(a, b) == Pos(a) < Pos(b)

MethodAll == "*"
AllMethods == <<"GET", "POST", "PUT", "PATCH", "DELETE">>

KindResource == "resource"
KindEndpoint == "endpoint"
UserKind == "User"
GroupKind == "Group"

Range(s) == {s[i] : i \in DOMAIN s}

Front(s) == SubSeq(s, 1, Len(s) - 1)

RECURSIVE Flatten(_)
\* the appends of a loop, one after the other
Flatten(ss) == IF ss = <<>> THEN <<>> ELSE Head(ss) \o Flatten(Tail(ss))

rulesLessByMethod(a, b) ==
    IF a.method = b.method THEN StrLess(a.endpoint, b.endpoint)
    ELSE StrLess(a.method, b.method)
\* the Less methods of the five sorted lists
rulesLess(a, b) ==
    IF a.endpoint = b.endpoint THEN StrLess(a.method, b.method)
    ELSE StrLess(a.endpoint, b.endpoint)

rolesLess(a, b) ==
    IF a.namespace = b.namespace THEN StrLess(a.name, b.name)
    ELSE StrLess(a.namespace, b.namespace)

bindingsLess(a, b) == StrLess(a.namespace, b.namespace)

roleRefsLess(a, b) ==
    IF a.namespace = b.namespace THEN StrLess(a.name, b.name)
    ELSE StrLess(a.namespace, b.namespace)

roleBindingsLessDown(a, b) == StrLess(b.uid, a.uid)
roleBindingsLess(a, b) == StrLess(a.uid, b.uid)

LessNever(kind, a, b) == FALSE
Less(kind, a, b) ==
    CASE kind = "rules" -> rulesLess(a, b)
      [] kind = "roles" -> rolesLess(a, b)
      [] kind = "bindings" -> bindingsLess(a, b)
      [] kind = "roleRefs" -> roleRefsLess(a, b)
      [] kind = "roleBindings" -> roleBindingsLess(a, b)

RECURSIVE Insert(_, _, _)
\* the inner loop of the insertion sort: x moves down while it is less than
\* the element before it
Insert(kind, t, x) ==
    IF t = <<>> \/ ~Less(kind, x, t[Len(t)]) THEN Append(t, x)
    ELSE Append(Insert(kind, Front(t), x), t[Len(t)])

RECURSIVE Sort(_, _)
\* sort.Sort on a list of the lengths met here
Sort(kind, s) ==
    IF Len(s) <= 1 THEN s ELSE Insert(kind, Sort(kind, Front(s)), s[Len(s)])

\* the wildcard test of the generators: the list is exactly ["*"]
IsWildcard(verbs) == Len(verbs) = 1 /\ verbs[1] = MethodAll

ExpandNone(verbs) == verbs
Expand(verbs) == IF IsWildcard(verbs) THEN AllMethods ELSE verbs

\* the (method, endpoint) pairs a Policy registers, rule by rule
PolicyPairs(p) ==
    Flatten([i \in DOMAIN p.rules |->
        [j \in DOMAIN p.rules[i].endpoints |->
            [method |-> p.rules[i].verb, endpoint |-> p.rules[i].endpoints[j], verb |-> p.rules[i].verb]]])

\* the table built from the Policies: resource -> the pairs of its policies
getResourceActionMappings(policies) ==
    [i \in DOMAIN policies |-> [resource |-> policies[i].resource, pairs |-> PolicyPairs(policies[i])]]

SelectPairs(pairs, verbs) ==
    Flatten([i \in DOMAIN pairs |->
        IF pairs[i].verb \in Range(verbs)
        THEN <<[method |-> pairs[i].method, endpoint |-> pairs[i].endpoint]>>
        ELSE <<>>])

GetRulesAnyResource(mappings, res, verbs) ==
    Flatten([i \in DOMAIN mappings |-> SelectPairs(mappings[i].pairs, Expand(verbs))])
\* the pairs registered under res for the verbs, none for an unmapped name
GetRules(mappings, res, verbs) ==
    Flatten([i \in DOMAIN mappings |->
        IF mappings[i].resource = res
        THEN SelectPairs(mappings[i].pairs, Expand(verbs))
        ELSE <<>>])

RuleRulesLookup(mappings, r) ==
    Flatten([i \in DOMAIN r.resources |-> GetRules(mappings, r.resources[i], r.verbs)])
\* the rules one input rule appends
RuleRules(mappings, r) ==
    IF r.kind = KindResource
    THEN Flatten([i \in DOMAIN r.resources |-> GetRules(mappings, r.resources[i], r.verbs)])
    ELSE LET verbs == Expand(r.verbs)
         IN Flatten([v \in DOMAIN verbs |->
                [e \in DOMAIN r.resources |-> [method |-> verbs[v], endpoint |-> r.resources[e]]]])

generateOPARolesNonEmpty(roles, policies) ==
    LET mappings == getResourceActionMappings(policies)
    IN SelectSeq(Sort("roles", [i \in DOMAIN roles |->
           [name |-> roles[i].name,
            namespace |-> roles[i].namespace,
            rules |-> Sort("rules", Flatten([j \in DOMAIN roles[i].rules |-> RuleRules(mappings, roles[i].rules[j])]))]]),
           LAMBDA c : c.rules # <<>>)
generateOPARoles(roles, policies) ==
    LET mappings == getResourceActionMappings(policies)
    IN Sort("roles", [i \in DOMAIN roles |->
           [name |-> roles[i].name,
            namespace |-> roles[i].namespace,
            rules |-> Sort("rules", Flatten([j \in DOMAIN roles[i].rules |-> RuleRules(mappings, roles[i].rules[j])]))]])

\* the elements of s, each at its first occurrence: the keys of a map in the
\* order they were inserted (the order the model ranges over the map in; the
\* lists built from a range over a map are sorted before they are returned)
FirstSeen(s) ==
    Flatten([i \in DOMAIN s |-> IF \E j \in 1..(i - 1) : s[j] = s[i] THEN <<>> ELSE <<s[i]>>])

IsSubjectAny(s) == TRUE
IsUser(s) == s.kind = UserKind

\* the appends to userRoleMap, in the order of the two loops
Grants(rbs) ==
    Flatten([i \in DOMAIN rbs |->
        Flatten([j \in DOMAIN rbs[i].subjects |->
            IF IsUser(rbs[i].subjects[j])
            THEN <<[uid |-> rbs[i].subjects[j].uid,
                    namespace |-> rbs[i].namespace,
                    ref |-> [name |-> rbs[i].roleRef.name, namespace |-> rbs[i].roleRef.namespace]]>>
            ELSE <<>>])])

RefsOfUser(grants, u, n) ==
    Flatten([i \in DOMAIN grants |-> IF grants[i].uid = u THEN <<grants[i].ref>> ELSE <<>>])
\* userRoleMap[u][n]
RefsOf(grants, u, n) ==
    Flatten([i \in DOMAIN grants |->
        IF grants[i].uid = u /\ grants[i].namespace = n THEN <<grants[i].ref>> ELSE <<>>])

generateOPARoleBindings(rbs) ==
    LET grants == Grants(rbs)
        uids == FirstSeen([i \in DOMAIN grants |-> grants[i].uid])
        nss(u) == FirstSeen(Flatten([i \in DOMAIN grants |->
                      IF grants[i].uid = u THEN <<grants[i].namespace>> ELSE <<>>]))
        bindingsData(u) ==
            LET ns == nss(u)
            IN Sort("bindings", [k \in DOMAIN ns |->
                   [namespace |-> ns[k], roleRefs |-> Sort("roleRefs", RefsOf(grants, u, ns[k]))]])
    IN Sort("roleBindings", [i \in DOMAIN uids |-> [uid |-> uids[i], bindings |-> bindingsData(uids[i])]])

\* the rules the entries of a static table append
TableRules(entries) ==
    Flatten([i \in DOMAIN entries |->
        LET methods == Expand(entries[i].methods)
        IN Flatten([m \in DOMAIN methods |->
               [e \in DOMAIN entries[i].endpoints |->
                   [method |-> methods[m], endpoint |-> entries[i].endpoints[e]]]])])

\* every rule of the table, resource by resource and verb by verb
MappedRules(mappings) ==
    Flatten([i \in DOMAIN mappings |->
        [j \in DOMAIN mappings[i].pairs |->
            [method |-> mappings[i].pairs[j].method, endpoint |-> mappings[i].pairs[j].endpoint]]])

generateOPAExemptionURLsMixed(policies, tbl) ==
    [public |-> Sort("rules", MappedRules(getResourceActionMappings(policies)) \o TableRules(tbl.public)),
     privileged |-> Sort("rules", TableRules(tbl.privileged)),
     registered |-> Sort("rules", MappedRules(getResourceActionMappings(policies)) \o TableRules(tbl.admin))]
generateOPAExemptionURLs(policies, tbl) ==
    [public |-> Sort("rules", TableRules(tbl.public)),
     privileged |-> Sort("rules", TableRules(tbl.privileged)),
     registered |-> Sort("rules", MappedRules(getResourceActionMappings(policies)) \o TableRules(tbl.admin))]

\* what r.Verbs = AllMethods leaves in the caller's rules when the lists hold
\* pointers
TouchedRoles(roles) ==
    [i \in DOMAIN roles |-> [roles[i] EXCEPT !.rules =
        [j \in DOMAIN roles[i].rules |->
            IF roles[i].rules[j].kind # KindResource /\ IsWildcard(roles[i].rules[j].verbs)
            THEN [roles[i].rules[j] EXCEPT !.verbs = AllMethods]
            ELSE roles[i].rules[j]]]]

TouchedEntriesEmptied(entries) ==
    [i \in DOMAIN entries |->
        IF IsWildcard(entries[i].methods) THEN [entries[i] EXCEPT !.methods = <<>>] ELSE entries[i]]
TouchedEntries(entries) ==
    [i \in DOMAIN entries |->
        IF IsWildcard(entries[i].methods) THEN [entries[i] EXCEPT !.methods = AllMethods] ELSE entries[i]]

\* what r.Methods = AllMethods leaves in the three package variables
TouchedTables(tbl) ==
    [public |-> TouchedEntries(tbl.public),
     privileged |-> TouchedEntries(tbl.privileged),
     admin |-> TouchedEntries(tbl.admin)]

(* ------------------- the inputs of the generators ---------------------- *)

\* the most rules the roles of a store hold together
MaxRules == 2

\* the most role bindings of a store
MaxBindings == 2

Rule(kind, resources, verbs) == [kind |-> kind, resources |-> resources, verbs |-> verbs]

RuleSet ==
    {Rule(KindEndpoint, <<"/api/builds">>, <<"*">>),
     Rule(KindEndpoint, <<"/api/builds", "/api/tests">>, <<"GET", "POST">>),
     Rule(KindEndpoint, <<"/api/builds">>, <<"*", "GET">>),
     Rule(KindResource, <<"Workflow", "Ghost">>, <<"*">>)}

SeqsUpTo(S, n) == UNION {[1..k -> S] : k \in 0..n}

\* the stored roles: unique by (namespace, name)
RoleLists ==
    {<<>>} \cup
    {<<[name |-> "viewer", namespace |-> "proj1", rules |-> r1]>> : r1 \in SeqsUpTo(RuleSet, MaxRules)} \cup
    UNION {{<<[name |-> "viewer", namespace |-> "proj1", rules |-> r1],
              [name |-> "admin", namespace |-> "proj2", rules |-> r2]>>
                : r2 \in SeqsUpTo(RuleSet, MaxRules - Len(r1))} : r1 \in SeqsUpTo(RuleSet, MaxRules)}

Subject(kind, uid) == [kind |-> kind, uid |-> uid]

Binding(ns, name, subjects) ==
    [namespace |-> ns, roleRef |-> [name |-> name, namespace |-> ns], subjects |-> subjects]

BindingSet ==
    {Binding("proj1", "viewer", <<Subject(UserKind, "u1")>>),
     Binding("proj1", "admin", <<Subject(UserKind, "u1"), Subject(GroupKind, "u2")>>),
     Binding("proj2", "viewer", <<Subject(UserKind, "u2"), Subject(UserKind, "u1")>>),
     Binding("proj2", "admin", <<Subject(GroupKind, "u1")>>),
     Binding("proj1", "viewer", <<Subject(UserKind, "u2"), Subject(UserKind, "u2")>>)}

BindingLists == SeqsUpTo(BindingSet, MaxBindings)

PolicyRule(verb, endpoints) == [verb |-> verb, endpoints |-> endpoints]

Policy(resource, rules) == [resource |-> resource, rules |-> rules]

PolicyLists ==
    {<<>>,
     <<Policy("Workflow", <<PolicyRule("GET", <<"/api/wf">>), PolicyRule("POST", <<"/api/wf">>)>>)>>,
     <<Policy("Workflow", <<PolicyRule("GET", <<"/api/wf">>)>>),
       Policy("Build", <<PolicyRule("GET", <<"/api/builds", "/api/tests">>)>>)>>}

Entry(methods, endpoints) == [methods |-> methods, endpoints |-> endpoints]

\* static tables whose admin list repeats the public and the privileged
\* entries
TablesRepeated ==
    [public |-> <<Entry(<<"*">>, <<"/api/health">>)>>,
     privileged |-> <<Entry(<<"*">>, <<"/api/users">>)>>,
     admin |-> <<Entry(<<"*">>, <<"/api/health">>), Entry(<<"*">>, <<"/api/users">>)>>]

\* static tables whose admin list has entries of its own
TablesApart ==
    [public |-> <<Entry(<<"*">>, <<"/api/health">>)>>,
     privileged |-> <<Entry(<<"*">>, <<"/api/users">>)>>,
     admin |-> <<Entry(<<"GET", "POST">>, <<"/api/users", "/api/tests">>)>>]

TableSettings == {TablesRepeated, TablesApart}

\* the generators, before their first call, over one store
InitGen ==
    /\ InitBundle
    /\ InitProjectIdle
    /\ InitHelmIdle
    /\ compiled = NoOutput
    /\ \/ /\ \E rs \in RoleLists, ps \in PolicyLists :
                 store = [roles |-> rs, bindings |-> <<>>, policies |-> ps]
          /\ tables = TablesRepeated
          /\ aliased \in BOOLEAN
       \/ /\ \E ps \in PolicyLists :
                 store = [roles |-> <<>>, bindings |-> <<>>, policies |-> ps]
          /\ tables \in TableSettings
          /\ aliased \in BOOLEAN
       \/ /\ \E bs \in BindingLists :
                 store = [roles |-> <<>>, bindings |-> bs, policies |-> <<>>]
          /\ tables = TablesApart
          /\ aliased = FALSE

\* GenerateOPABundle's three calls, on the lists the store returns; rs is the
\* role list as the calls leave it
Compile ==
    /\ compiled' = [state |-> "done",
                    roles |-> generateOPARoles(store.roles, store.policies),
                    bindings |-> generateOPARoleBindings(store.bindings),
                    exemptions |-> generateOPAExemptionURLs(store.policies, tables),
                    rs |-> IF aliased THEN TouchedRoles(store.roles) ELSE store.roles]
    /\ tables' = IF aliased THEN TouchedTables(tables) ELSE tables
    /\ UNCHANGED <<store, aliased, sharedVars, compileVars, readerVars, projectVars, helmVars>>

Swap(s, i) == [s EXCEPT ![i] = s[i + 1], ![i + 1] = s[i]]

\* the store returns its documents in another order: two neighbours of one of
\* its lists change places; the lists of the compile before are garbage by then
Permute ==
    /\ \/ \E i \in 1..(Len(store.roles) - 1) :
              store' = [store EXCEPT !.roles = Swap(@, i)]
       \/ \E i \in DOMAIN store.roles : \E j \in 1..(Len(store.roles[i].rules) - 1) :
              store' = [store EXCEPT !.roles[i].rules = Swap(@, j)]
       \/ \E i \in DOMAIN store.roles : \E j \in DOMAIN store.roles[i].rules :
              \E k \in 1..(Len(store.roles[i].rules[j].resources) - 1) :
                  store' = [store EXCEPT !.roles[i].rules[j].resources = Swap(@, k)]
       \/ \E i \in DOMAIN store.roles : \E j \in DOMAIN store.roles[i].rules :
              \E k \in 1..(Len(store.roles[i].rules[j].verbs) - 1) :
                  store' = [store EXCEPT !.roles[i].rules[j].verbs = Swap(@, k)]
       \/ \E i \in 1..(Len(store.bindings) - 1) :
              store' = [store EXCEPT !.bindings = Swap(@, i)]
       \/ \E i \in DOMAIN store.bindings : \E j \in 1..(Len(store.bindings[i].subjects) - 1) :
              store' = [store EXCEPT !.bindings[i].subjects = Swap(@, j)]
       \/ \E i \in 1..(Len(store.policies) - 1) :
              store' = [store EXCEPT !.policies = Swap(@, i)]
       \/ \E i \in DOMAIN store.policies : \E j \in 1..(Len(store.policies[i].rules) - 1) :
              store' = [store EXCEPT !.policies[i].rules = Swap(@, j)]
       \/ \E i \in DOMAIN store.policies : \E j \in DOMAIN store.policies[i].rules :
              \E k \in 1..(Len(store.policies[i].rules[j].endpoints) - 1) :
                  store' = [store EXCEPT !.policies[i].rules[j].endpoints = Swap(@, k)]
    /\ compiled' = IF compiled.state = "done" THEN [compiled EXCEPT !.rs = <<>>] ELSE compiled
    /\ UNCHANGED <<tables, aliased, sharedVars, compileVars, readerVars, projectVars, helmVars>>

NextGen ==
    \/ Compile
    \/ Permute

SpecGen == InitGen /\ [][NextGen]_vars

(* ------------------- the generators: properties ------------------------ *)

\* C13: permutation invariance. Whatever order the store returns its roles,
\* role bindings and policies in (and the rules, resources, verbs, subjects
\* and endpoints inside them), the three generators return the same
\* sequences: a compile after any reordering returns what the compile before
\* it returned.
C13_PermutationInvariance ==
    [][(compiled.state = "done" /\ compiled'.state = "done") =>
           /\ compiled'.roles = compiled.roles
           /\ compiled'.bindings = compiled.bindings
           /\ compiled'.exemptions = compiled.exemptions]_vars

\* the case of C13: two roles and two policies compiled, the roles returned in
\* the other order than the store gave them, the first with two rules
C13_Witness ==
    /\ compiled.state = "done"
    /\ Len(store.roles) = 2
    /\ Len(store.policies) = 2
    /\ Len(store.roles[1].rules) = 2
    /\ compiled.roles[1].name = store.roles[2].name
    /\ compiled.rs = store.roles

\* the compiled role of the stored role ro
CompiledRole(ro) ==
    CHOOSE c \in Range(compiled.roles) : c.name = ro.name /\ c.namespace = ro.namespace

\* how often the rule (m, e) is in the list
Count(rules, m, e) ==
    Cardinality({i \in DOMAIN rules : rules[i].method = m /\ rules[i].endpoint = e})

NoRepeat(rules) == \A i, j \in DOMAIN rules : rules[i] = rules[j] => i = j

\* the endpoints a rule is about: its resources, or what the policies
\* register under them
EndpointsOf(r) ==
    IF r.kind = KindResource
    THEN {p.endpoint : p \in UNION {Range(PolicyPairs(po)) :
              po \in {q \in Range(store.policies) : q.resource \in Range(r.resources)}}}
    ELSE Range(r.resources)

ExactlyAllMethods(rules, e) ==
    /\ \A m \in Range(AllMethods) : Count(rules, m, e) = 1
    /\ \A i \in DOMAIN rules : rules[i].endpoint = e => rules[i].method \in Range(AllMethods)

AllCompiledRules ==
    UNION {Range(c.rules) : c \in Range(compiled.roles)}
        \cup Range(compiled.exemptions.public)
        \cup Range(compiled.exemptions.privileged)
        \cup Range(compiled.exemptions.registered)

\* C14 as stated: every rule of either kind and every static public or
\* privileged entry whose verb list is ["*"] gives each of its endpoints
\* exactly the five methods, each once, and no compiled rule has the method
\* "*" (roles in which a rule is repeated are left aside here).
C14_WildcardAlways ==
    compiled.state = "done" =>
        /\ \A ro \in Range(store.roles) : \A r \in Range(ro.rules) :
               (IsWildcard(r.verbs) /\ NoRepeat(CompiledRole(ro).rules)) =>
                   \A e \in EndpointsOf(r) : ExactlyAllMethods(CompiledRole(ro).rules, e)
        /\ \A en \in Range(tables.public) : Expand(en.methods) = AllMethods =>
               \A e \in Range(en.endpoints) : ExactlyAllMethods(compiled.exemptions.public, e)
        /\ \A en \in Range(tables.privileged) : Expand(en.methods) = AllMethods =>
               \A e \in Range(en.endpoints) : ExactlyAllMethods(compiled.exemptions.privileged, e)
        /\ \A c \in AllCompiledRules : c.method # MethodAll

\* C14, amended: an EndpointKind rule and a static public or privileged entry
\* whose verb list is exactly ["*"] give each of their endpoints every one of
\* GET, POST, PUT, PATCH, DELETE, and a role of one such rule on one endpoint
\* compiles to exactly these five rules, sorted by method; a compiled role
\* rule has the method "*" only where an EndpointKind rule lists "*" next to
\* other verbs.
C14_Wildcard ==
    compiled.state = "done" =>
        /\ \A ro \in Range(store.roles) : \A r \in Range(ro.rules) :
               (r.kind = KindEndpoint /\ IsWildcard(r.verbs)) =>
                   /\ \A e \in Range(r.resources) : \A m \in Range(AllMethods) :
                          Count(CompiledRole(ro).rules, m, e) >= 1
                   /\ (Len(ro.rules) = 1 /\ Len(r.resources) = 1) =>
                          CompiledRole(ro).rules =
                              [i \in 1..5 |-> [method |-> <<"DELETE", "GET", "PATCH", "POST", "PUT">>[i],
                                               endpoint |-> r.resources[1]]]
        /\ \A en \in Range(tables.public) : Expand(en.methods) = AllMethods =>
               \A e \in Range(en.endpoints) : \A m \in Range(AllMethods) :
                   Count(compiled.exemptions.public, m, e) >= 1
        /\ \A en \in Range(tables.privileged) : Expand(en.methods) = AllMethods =>
               \A e \in Range(en.endpoints) : \A m \in Range(AllMethods) :
                   Count(compiled.exemptions.privileged, m, e) >= 1
        /\ \A ro \in Range(store.roles) :
               (\E c \in Range(CompiledRole(ro).rules) : c.method = MethodAll) =>
                   \E r \in Range(ro.rules) :
                       r.kind = KindEndpoint /\ MethodAll \in Range(r.verbs) /\ Len(r.verbs) > 1

\* the case of C14: a role of the one rule ["*"] on /api/builds, compiled to five
\* rules, next to static entries given with ["*"]
C14_Witness ==
    /\ compiled.state = "done"
    /\ Len(store.roles) = 1
    /\ store.roles[1].rules = <<Rule(KindEndpoint, <<"/api/builds">>, <<"*">>)>>
    /\ Len(compiled.roles[1].rules) = 5
    /\ IsWildcard(tables.public[1].methods)
    /\ Len(compiled.exemptions.public) = 5

\* the places (binding, subject) of the store where a User subject stands
UserPlaces ==
    UNION {{<<i, j>> : j \in {k \in DOMAIN store.bindings[i].subjects :
                                  store.bindings[i].subjects[k].kind = UserKind}}
               : i \in DOMAIN store.bindings}

\* the places (entry, group, reference) of the compiled bindings
RefPlaces ==
    UNION {UNION {{<<a, b, c>> : c \in DOMAIN compiled.bindings[a].bindings[b].roleRefs}
               : b \in DOMAIN compiled.bindings[a].bindings}
               : a \in DOMAIN compiled.bindings}

\* C15: subject filtering. Every role reference of the compiled bindings
\* stands under the UID of a User subject of a RoleBinding of that namespace
\* and role; there are as many references as User subjects, so that a
\* RoleBinding of non-User subjects only adds nothing, and no entry and no
\* group is empty.
C15_SubjectFiltering ==
    compiled.state = "done" =>
        /\ \A en \in Range(compiled.bindings) :
               /\ en.bindings # <<>>
               /\ \A g \in Range(en.bindings) :
                      /\ g.roleRefs # <<>>
                      /\ \A ref \in Range(g.roleRefs) :
                             \E rb \in Range(store.bindings) :
                                 /\ rb.namespace = g.namespace
                                 /\ rb.roleRef = ref
                                 /\ \E sub \in Range(rb.subjects) :
                                        sub.kind = UserKind /\ sub.uid = en.uid
        /\ Cardinality(RefPlaces) = Cardinality(UserPlaces)

\* the case of C15: a binding of a Group subject only and a binding of a User
\* and a Group subject compiled, one entry returned
C15_Witness ==
    /\ compiled.state = "done"
    /\ Len(store.bindings) = 2
    /\ \A sub \in Range(store.bindings[1].subjects) : sub.kind # UserKind
    /\ \E sub \in Range(store.bindings[2].subjects) : sub.kind = UserKind
    /\ \E sub \in Range(store.bindings[2].subjects) : sub.kind # UserKind
    /\ Len(compiled.bindings) = 1

\* the UIDs of the User subjects of the store
UserUIDs ==
    {store.bindings[pl[1]].subjects[pl[2]].uid : pl \in UserPlaces}

\* the bindings of the store that bind the User u in the namespace n
BindingsOf(u, n) ==
    {i \in DOMAIN store.bindings :
        /\ store.bindings[i].namespace = n
        /\ \E sub \in Range(store.bindings[i].subjects) : sub.kind = UserKind /\ sub.uid = u}

\* one entry per UID of a User subject, one group per namespace the UID is
\* bound in
OneEntryOneGroup ==
    /\ {en.uid : en \in Range(compiled.bindings)} = UserUIDs
    /\ Len(compiled.bindings) = Cardinality(UserUIDs)
    /\ \A en \in Range(compiled.bindings) :
           /\ {g.namespace : g \in Range(en.bindings)} =
                  {store.bindings[i].namespace : i \in {k \in DOMAIN store.bindings :
                      \E sub \in Range(store.bindings[k].subjects) : sub.kind = UserKind /\ sub.uid = en.uid}}
           /\ \A a, b \in DOMAIN en.bindings : en.bindings[a].namespace = en.bindings[b].namespace => a = b
           /\ \A g \in Range(en.bindings) : \A i \in BindingsOf(en.uid, g.namespace) :
                  store.bindings[i].roleRef \in Range(g.roleRefs)

\* C16 as stated: one entry per UID of a User subject, one group per namespace
\* the UID is bound in, and in each group one role reference per binding of
\* the UID in the namespace.
C16_GroupingAlways ==
    compiled.state = "done" =>
        /\ OneEntryOneGroup
        /\ \A en \in Range(compiled.bindings) : \A g \in Range(en.bindings) :
               Len(g.roleRefs) = Cardinality(BindingsOf(en.uid, g.namespace))

\* C16, amended: one entry per UID of a User subject, one group per namespace
\* the UID is bound in, and in each group one role reference per User subject
\* of that UID in a binding of the namespace (a binding that names the User
\* twice gives two).
C16_Grouping ==
    compiled.state = "done" =>
        /\ OneEntryOneGroup
        /\ \A en \in Range(compiled.bindings) : \A g \in Range(en.bindings) :
               Len(g.roleRefs) =
                   Cardinality({pl \in UserPlaces :
                       /\ store.bindings[pl[1]].namespace = g.namespace
                       /\ store.bindings[pl[1]].subjects[pl[2]].uid = en.uid})

\* the case of C16: the bindings of u1 in proj1 and in proj2 compiled to one
\* entry of two groups
C16_Witness ==
    /\ compiled.state = "done"
    /\ Len(store.bindings) = 2
    /\ UserUIDs = {"u1", "u2"}
    /\ \E en \in Range(compiled.bindings) :
           /\ en.uid = "u1"
           /\ Len(en.bindings) = 2
           /\ en.bindings[1] = [namespace |-> "proj1",
                                roleRefs |-> <<[name |-> "viewer", namespace |-> "proj1"]>>]

\* C17: Registered covers everything. Each rule of the Public list, each rule
\* of the Privileged list and each (method, endpoint) pair of the policies is
\* in the Registered list.
C17_RegisteredCoversAll ==
    compiled.state = "done" =>
        /\ Range(compiled.exemptions.public) \subseteq Range(compiled.exemptions.registered)
        /\ Range(compiled.exemptions.privileged) \subseteq Range(compiled.exemptions.registered)
        /\ \A po \in Range(store.policies) : \A pr \in Range(po.rules) : \A e \in Range(pr.endpoints) :
               [method |-> pr.verb, endpoint |-> e] \in Range(compiled.exemptions.registered)

\* C18: the rules of a compiled role are deduplicated. No (method, endpoint)
\* pair is twice in a compiled role.
C18_RulesDeduplicated ==
    compiled.state = "done" => \A c \in Range(compiled.roles) : NoRepeat(c.rules)

\* C20: the inputs are read-only. A compile leaves the verb lists of the
\* roles it was handed and the method lists of the three static tables as
\* they were.
C20_InputsReadOnly ==
    [][/\ tables' = tables
       /\ (compiled'.state = "done" /\ compiled' # compiled /\ store' = store) =>
              compiled'.rs = store.roles]_vars

\* C19: readers and compiles never wait on each other. Every compile that was
\* triggered returns, published or failed, whatever requests are served
\* meanwhile, and every GetRevision call that has loaded the current
\* generation returns, whatever the compile in progress does (a call that
\* finds no generation at all ends at once, in the panic of ReadFile); the
\* next step of either is possible in every state, whatever the other does.
C19_NeverWait ==
    /\ Active(Trigger) ~> (cpc[Trigger] = "returned")
    /\ (rpc = "read") ~> GotRevision
    /\ (rpc = "respond") ~> (rpc = "done")
    /\ [](rpc = "read" => ENABLED ReadManifest)
    /\ [](Active(Trigger) =>
            ENABLED (AssignFs(Trigger) \/ WriteFileOk(Trigger) \/ WriteFileFail(Trigger)
                        \/ TarOk(Trigger) \/ TarFail(Trigger)))

\* the case of C19: GetRevision has returned to a request while the compile is
\* between two of its writes
C19_Witness ==
    /\ GotRevision
    /\ cpc[Trigger] = "write"
    /\ cidx[Trigger] > 1

\* a list of rules in non-decreasing order of (endpoint, then method)
RulesInOrder(rules) ==
    \A i, j \in DOMAIN rules : i < j =>
        \/ Pos(rules[i].endpoint) < Pos(rules[j].endpoint)
        \/ /\ rules[i].endpoint = rules[j].endpoint
           /\ Pos(rules[i].method) <= Pos(rules[j].method)

\* a list of roles or of role references in non-decreasing order of
\* (namespace, then name)
NamedInOrder(l) ==
    \A i, j \in DOMAIN l : i < j =>
        \/ Pos(l[i].namespace) < Pos(l[j].namespace)
        \/ /\ l[i].namespace = l[j].namespace
           /\ Pos(l[i].name) <= Pos(l[j].name)

\* C21: the ordering of the role compiler. In every output of
\* generateOPARoles the rules of each role are in non-decreasing order of
\* (endpoint, then method) and the roles in non-decreasing order of
\* (namespace, then name).
C21_RolesOrdered ==
    compiled.state = "done" =>
        /\ NamedInOrder(compiled.roles)
        /\ \A c \in Range(compiled.roles) : RulesInOrder(c.rules)

\* the case of C21: the store gave the role of proj2 before the role of proj1
\* and the verbs and endpoints of a rule in another order than the compiled one
C21_Witness ==
    /\ compiled.state = "done"
    /\ Len(store.roles) = 2
    /\ store.roles[1].namespace = "proj2"
    /\ compiled.roles[1].namespace = "proj1"
    /\ \E ro \in Range(store.roles) : \E r \in Range(ro.rules) :
           r.verbs = <<"POST", "GET">> /\ r.resources = <<"/api/tests", "/api/builds">>

\* C22: the ordering of the role binding compiler. In every output of
\* generateOPARoleBindings the entries are in strictly increasing order of
\* UID, the groups of each entry in strictly increasing order of namespace,
\* and the role references of each group in non-decreasing order of
\* (namespace, then name).
C22_BindingsOrdered ==
    compiled.state = "done" =>
        /\ \A i, j \in DOMAIN compiled.bindings : i < j =>
               Pos(compiled.bindings[i].uid) < Pos(compiled.bindings[j].uid)
        /\ \A en \in Range(compiled.bindings) :
               /\ \A i, j \in DOMAIN en.bindings : i < j =>
                      Pos(en.bindings[i].namespace) < Pos(en.bindings[j].namespace)
               /\ \A g \in Range(en.bindings) : NamedInOrder(g.roleRefs)

\* the case of C22: the store gave the binding of proj2, with u2 before u1,
\* before the binding of proj1
C22_Witness ==
    /\ compiled.state = "done"
    /\ Len(store.bindings) = 2
    /\ store.bindings[1] = Binding("proj2", "viewer", <<Subject(UserKind, "u2"), Subject(UserKind, "u1")>>)
    /\ store.bindings[2] = Binding("proj1", "viewer", <<Subject(UserKind, "u1")>>)
    /\ Len(compiled.bindings) = 2
    /\ compiled.bindings[1].uid = "u1"
    /\ Len(compiled.bindings[1].bindings) = 2
    /\ compiled.bindings[1].bindings[1].namespace = "proj1"

\* C23: the ordering of the exemption lists. In every output of
\* generateOPAExemptionURLs the Public, the Privileged and the Registered
\* list are in non-decreasing order of (endpoint, then method), and the
\* Public and the Privileged list are what the generator returns for their
\* own static table alone, with no Policy and the other tables empty.
C23_ExemptionsOrdered ==
    compiled.state = "done" =>
        /\ RulesInOrder(compiled.exemptions.public)
        /\ RulesInOrder(compiled.exemptions.privileged)
        /\ RulesInOrder(compiled.exemptions.registered)
        /\ compiled.exemptions.public =
               generateOPAExemptionURLs(<<>>, [NoTables EXCEPT !.public = tables.public]).public
        /\ compiled.exemptions.privileged =
               generateOPAExemptionURLs(<<>>, [NoTables EXCEPT !.privileged = tables.privileged]).privileged

\* the case of C23: two policies compiled next to an admin table of two
\* methods on two endpoints, the five public rules returned in their order
C23_Witness ==
    /\ compiled.state = "done"
    /\ Len(store.policies) = 2
    /\ tables.admin = TablesApart.admin
    /\ Len(compiled.exemptions.registered) = 7
    /\ compiled.exemptions.public[1].method = "DELETE"
    /\ Len(compiled.exemptions.privileged) = 5

\* the verbs of a rule, ["*"] read as the five methods
ExpandedVerbs(r) == IF r.verbs = <<MethodAll>> THEN AllMethods ELSE r.verbs

\* the places (rule, verb, resource) of the EndpointKind rules of a role where
\* the method m is granted on the endpoint e
EndpointGrants(ro, m, e) ==
    UNION {{<<j, v, k>> : <<v, k>> \in
                {vk \in (DOMAIN ExpandedVerbs(ro.rules[j])) \X (DOMAIN ro.rules[j].resources) :
                    /\ ExpandedVerbs(ro.rules[j])[vk[1]] = m
                    /\ ro.rules[j].resources[vk[2]] = e}}
               : j \in {i \in DOMAIN ro.rules : ro.rules[i].kind = KindEndpoint}}

\* the role with its EndpointKind rules only
EndpointRulesOnly(ro) ==
    [ro EXCEPT !.rules = SelectSeq(ro.rules, LAMBDA r : r.kind = KindEndpoint)]

\* C24: EndpointKind rules bypass the table. The rules an EndpointKind rule
\* with resources R and expanded verbs V adds to its compiled role are the
\* pairs (v, r), v of V and r of R, one for each: a role of EndpointKind rules
\* compiles to exactly these pairs, any role holds at least these, and the
\* EndpointKind rules compile to the same under the Policy list of the store
\* and under no Policy at all.
C24_EndpointRulesBypassTable ==
    compiled.state = "done" =>
        /\ \A ro \in Range(store.roles) :
           \A m \in {c.method : c \in Range(CompiledRole(ro).rules)}
                       \cup UNION {Range(ExpandedVerbs(r)) : r \in Range(ro.rules)} :
           \A e \in {c.endpoint : c \in Range(CompiledRole(ro).rules)}
                       \cup UNION {Range(r.resources) : r \in Range(ro.rules)} :
               /\ Count(CompiledRole(ro).rules, m, e) >= Cardinality(EndpointGrants(ro, m, e))
               /\ (\A r \in Range(ro.rules) : r.kind = KindEndpoint) =>
                      Count(CompiledRole(ro).rules, m, e) = Cardinality(EndpointGrants(ro, m, e))
        /\ LET er == [i \in DOMAIN store.roles |-> EndpointRulesOnly(store.roles[i])]
           IN generateOPARoles(er, store.policies) = generateOPARoles(er, <<>>)

\* the case of C24: a role of one EndpointKind rule on /api/builds and /api/tests
\* compiled to four rules while a Policy registers both endpoints under a
\* resource
C24_Witness ==
    /\ compiled.state = "done"
    /\ Len(store.policies) = 2
    /\ Len(store.roles) = 1
    /\ store.roles[1].rules = <<Rule(KindEndpoint, <<"/api/builds", "/api/tests">>, <<"GET", "POST">>)>>
    /\ Len(compiled.roles[1].rules) = 4

\* a Policy of the store declares the resource
Declared(res) == \E po \in Range(store.policies) : po.resource = res

\* the roles without the resource names no Policy declares
Mapped(roles) ==
    [i \in DOMAIN roles |-> [roles[i] EXCEPT !.rules =
        [j \in DOMAIN roles[i].rules |->
            IF roles[i].rules[j].kind = KindResource
            THEN [roles[i].rules[j] EXCEPT !.resources = SelectSeq(@, Declared)]
            ELSE roles[i].rules[j]]]]

\* C25: unmapped resources are dropped silently. A resource name that no
\* Policy declares adds no rule: the roles compile to what they compile to
\* without these names, so that the role, the rules of its other resources
\* and its other rules stay; every stored role is emitted, and a role whose
\* every reference is unmapped is emitted with an empty rule list.
C25_UnmappedDropped ==
    compiled.state = "done" =>
        /\ compiled.roles = generateOPARoles(Mapped(store.roles), store.policies)
        /\ Len(compiled.roles) = Len(store.roles)
        /\ \A ro \in Range(store.roles) :
               /\ \E c \in Range(compiled.roles) : c.name = ro.name /\ c.namespace = ro.namespace
               /\ (\A r \in Range(ro.rules) :
                       r.kind = KindResource /\ \A res \in Range(r.resources) : ~Declared(res)) =>
                      CompiledRole(ro).rules = <<>>

\* the case of C25: a role of a rule on Workflow, which a Policy declares, and
\* Ghost, which none declares, and of an EndpointKind rule, compiled with the
\* rules of both, next to a role of that rule alone compiled under no Policy
C25_Witness ==
    /\ compiled.state = "done"
    /\ Len(store.policies) = 1
    /\ Len(store.roles) = 1
    /\ store.roles[1].rules = <<Rule(KindResource, <<"Workflow", "Ghost">>, <<"*">>),
                                Rule(KindEndpoint, <<"/api/builds">>, <<"*">>)>>
    /\ Len(compiled.roles[1].rules) = 7

\* the second case of C25: every reference of the role unmapped
C25_WitnessEmpty ==
    /\ compiled.state = "done"
    /\ store.policies = <<>>
    /\ Len(store.roles) = 1
    /\ store.roles[1].rules = <<Rule(KindResource, <<"Workflow", "Ghost">>, <<"*">>)>>
    /\ compiled.roles[1].rules = <<>>

\* C26: the ETag matches the bytes served. Whenever DownloadBundle has
\* answered 200 with an Etag r, the archive it streamed is a whole archive
\* whose manifest carries the revision r (a request that finds no archive
\* file at all is left aside: c.File does not answer it 200).
C26_EtagMatchesArchive ==
    (rpc = "done" /\ status = 200 /\ etag # {} /\ body.state # "none") =>
        /\ body.state = "ok"
        /\ Exists(body.files, manifestPath)
        /\ etag = {UnmarshalManifest(body.files[manifestPath].data).revision}

\* C27: recompiling is content-idempotent. A compile over the roles, role
\* bindings and policies the compile before it was given returns the roles,
\* bindings and exemptions data that one returned, whatever the first left
\* behind in the static tables.
C27_RecompileIdempotent ==
    [][(compiled.state = "done" /\ compiled'.state = "done" /\ store' = store) =>
           /\ compiled'.roles = compiled.roles
           /\ compiled'.bindings = compiled.bindings
           /\ compiled'.exemptions = compiled.exemptions]_vars

\* the case of C27: a compile has overwritten the ["*"] of the static tables
\* and of a role rule it was handed, and the next compile starts from these
\* tables
C27_Witness ==
    /\ compiled.state = "done"
    /\ aliased
    /\ tables.public[1].methods = AllMethods
    /\ Len(store.roles) = 1
    /\ store.roles[1].rules = <<Rule(KindEndpoint, <<"/api/builds">>, <<"*">>)>>
    /\ compiled.rs[1].rules[1].verbs = AllMethods
    /\ Len(compiled.exemptions.public) = 5

\* C28: readers are read-only. No step of GetRevision or of DownloadBundle
\* changes the reference to the current generation, a file of the current
\* generation, the archive, or what GetRevision returns; so reads between two
\* compiles leave the published generation and its revision as they were.
C28_ReadersReadOnly ==
    [][rpc' # rpc =>
           /\ cacheFS' = cacheFS
           /\ archive' = archive
           /\ cacheFS # NilFs => fss'[cacheFS] = fss[cacheFS]
           /\ GetRevisionNow' = GetRevisionNow
           /\ published' = published]_vars

\* the case of C28: a request was answered 200 with the archive of a published
\* generation, which is still the current one
C28_Witness ==
    /\ rpc = "done"
    /\ status = 200
    /\ published # <<>>
    /\ body = archive
    /\ archive.state = "ok"
    /\ etag = {GetRevisionNow}

(* ------------------- CreateProject -------------------------------------- *)

\* the most admins of one CreateProject call
MaxAdmins == 2

UIDs == {"u1", "u2"}

Admin == "admin"
ReadOnly == "read-only"
AllUsers == "*"

\* fmt.Sprintf(setting.RoleBindingNameFmt, uid, role, project), for the one
\* project of the model: a name for each (uid, role)
RoleBindingName(uid, role) == <<uid, role>>

RoleBinding(uid, role) == [name |-> RoleBindingName(uid, role), uid |-> uid, role |-> role, public |-> TRUE]

\* the list CreateProject builds: one binding per admin, then the read-only
\* binding of everyone when the project is public
BuildRoleBindings(admins, public) ==
    [i \in DOMAIN admins |-> RoleBinding(admins[i], Admin)]
        \o (IF public THEN <<RoleBinding(AllUsers, ReadOnly)>> ELSE <<>>)

\* the role binding names the policy service may hold before the call
StoredNames == {RoleBindingName(u, Admin) : u \in UIDs} \cup {RoleBindingName(AllUsers, ReadOnly)}

\* the services before a CreateProject call
InitProject ==
    /\ InitBundle
    /\ store = NoStore
    /\ tables = NoTables
    /\ aliased = FALSE
    /\ compiled = NoOutput
    /\ bindingStore \in SUBSET StoredNames
    /\ project = "none"
    /\ call = NoCall
    /\ update = NoUpdate
    /\ InitHelmIdle

\* CreateProject, lines 29-50: the list of role bindings is built
CallCreateProject(admins, public) ==
    /\ call.pc = "idle"
    /\ call' = [call EXCEPT !.pc = IF BuildRoleBindings(admins, public) = <<>> THEN "project" ELSE "bind",
                            !.admins = admins,
                            !.public = public,
                            !.rbs = BuildRoleBindings(admins, public),
                            !.idx = 1]
    /\ UNCHANGED <<bindingStore, project, sharedVars, compileVars, readerVars, genVars, update, helmVars>>

\* line 52: CreateOrUpdateRoleBinding succeeds for the next binding of the list
CreateOrUpdateRoleBindingOk ==
    /\ call.pc = "bind"
    /\ bindingStore' = bindingStore \cup {call.rbs[call.idx].name}
    /\ call' = [call EXCEPT !.pc = IF call.idx = Len(call.rbs) THEN "project" ELSE "bind",
                            !.idx = call.idx + 1,
                            !.bound = call.bound + 1,
                            !.made = IF call.rbs[call.idx].name \in bindingStore
                                       THEN call.made
                                       ELSE call.made \cup {call.rbs[call.idx].name}]
    /\ UNCHANGED <<project, sharedVars, compileVars, readerVars, genVars, update, helmVars>>

CreateOrUpdateRoleBindingFailGoesOn ==
    /\ call.pc = "bind"
    /\ call' = [call EXCEPT !.pc = IF call.idx = Len(call.rbs) THEN "project" ELSE "bind",
                            !.idx = call.idx + 1,
                            !.err = "rolebinding"]
    /\ UNCHANGED <<bindingStore, project, sharedVars, compileVars, readerVars, genVars, update, helmVars>>
\* lines 52-55: CreateOrUpdateRoleBinding fails and CreateProject returns the
\* error
CreateOrUpdateRoleBindingFail ==
    /\ call.pc = "bind"
    /\ call' = [call EXCEPT !.pc = "returned", !.err = "rolebinding"]
    /\ UNCHANGED <<bindingStore, project, sharedVars, compileVars, readerVars, genVars, update, helmVars>>

\* lines 58, 70: the project service creates the project
AslanCreateProjectOk ==
    /\ call.pc = "project"
    /\ project' = "created"
    /\ call' = [call EXCEPT !.pc = "returned", !.attempted = TRUE]
    /\ UNCHANGED <<bindingStore, sharedVars, compileVars, readerVars, genVars, update, helmVars>>

\* lines 58-61: the project service fails, the role bindings are to be deleted
AslanCreateProjectFail ==
    /\ call.pc = "project"
    /\ call' = [call EXCEPT !.pc = IF call.rbs = <<>> THEN "returned" ELSE "rollback",
                            !.idx = 1,
                            !.err = "project",
                            !.attempted = TRUE]
    /\ UNCHANGED <<bindingStore, project, sharedVars, compileVars, readerVars, genVars, update, helmVars>>

\* line 62: DeleteRoleBinding succeeds for the next binding of the list
DeleteRoleBindingOk ==
    /\ call.pc = "rollback"
    /\ bindingStore' = bindingStore \ {call.rbs[call.idx].name}
    /\ call' = [call EXCEPT !.pc = IF call.idx = Len(call.rbs) THEN "returned" ELSE "rollback",
                            !.idx = call.idx + 1]
    /\ UNCHANGED <<project, sharedVars, compileVars, readerVars, genVars, update, helmVars>>

\* lines 62-64: DeleteRoleBinding fails, which is logged, and the loop goes on
DeleteRoleBindingFail ==
    /\ call.pc = "rollback"
    /\ call' = [call EXCEPT !.pc = IF call.idx = Len(call.rbs) THEN "returned" ELSE "rollback",
                            !.idx = call.idx + 1,
                            !.undeleted = call.undeleted \cup {call.rbs[call.idx].name}]
    /\ UNCHANGED <<bindingStore, project, sharedVars, compileVars, readerVars, genVars, update, helmVars>>

NextProject ==
    \/ \E admins \in SeqsUpTo(UIDs, MaxAdmins), public \in BOOLEAN : CallCreateProject(admins, public)
    \/ CreateOrUpdateRoleBindingOk
    \/ CreateOrUpdateRoleBindingFail
    \/ AslanCreateProjectOk
    \/ AslanCreateProjectFail
    \/ DeleteRoleBindingOk
    \/ DeleteRoleBindingFail

SpecProject == InitProject /\ [][NextProject]_vars

(* ------------------- CreateProject: properties ------------------------- *)

\* C29: CreateProject rolls back on failure. Whenever CreateProject has
\* returned an error and no deletion of the rollback failed, none of the role
\* bindings this call created is in the policy store.
C29_RollbackOnFailure ==
    (call.pc = "returned" /\ call.err # "" /\ call.undeleted = {}) =>
        call.made \cap bindingStore = {}

\* C30: the ordering of CreateProject. The list holds one binding per admin
\* UID and, for a public project, the read-only binding of everyone; the
\* project service is called only once CreateOrUpdateRoleBinding has
\* succeeded for every binding of the list, and never after one failed.
C30_BindingsBeforeProject ==
    /\ call.pc # "idle" =>
           /\ Len(call.rbs) = Len(call.admins) + (IF call.public THEN 1 ELSE 0)
           /\ \A i \in DOMAIN call.admins :
                  call.rbs[i].uid = call.admins[i] /\ call.rbs[i].role = Admin
           /\ call.public =>
                  /\ call.rbs[Len(call.rbs)].uid = AllUsers
                  /\ call.rbs[Len(call.rbs)].role = ReadOnly
    /\ (call.attempted \/ project # "none") => call.bound = Len(call.rbs)
    /\ call.err = "rolebinding" => (~call.attempted /\ project = "none")

\* the case of C30: a public project of two admins created after its three
\* role bindings
C30_Witness ==
    /\ call.pc = "returned"
    /\ call.err = ""
    /\ call.public
    /\ call.admins = <<"u1", "u2">>
    /\ call.bound = 3
    /\ project = "created"

\* the second case of C30: the second role binding failed and the project
\* service was not called
C30_WitnessFailed ==
    /\ call.pc = "returned"
    /\ call.err = "rolebinding"
    /\ call.bound = 1
    /\ project = "none"

(* ------------------- UpdateProject ------------------------------------- *)

\* the most UpdateProject calls of one behaviour
MaxUpdates == 2

\* line 75: the name of the read-only binding of everyone
WildcardName == RoleBindingName(AllUsers, ReadOnly)

\* UpdateProject, lines 73-76: a call begins once the one before has returned
CallUpdateProject(public) ==
    /\ update.pc \in {"idle", "returned"}
    /\ update.n < MaxUpdates
    /\ update' = [pc |-> "bind",
                  public |-> public,
                  before |-> WildcardName \in bindingStore,
                  err |-> "",
                  n |-> update.n + 1]
    /\ UNCHANGED <<bindingStore, project, call, sharedVars, compileVars, readerVars, genVars, helmVars>>

\* lines 76-77: the project is not public and DeleteRoleBinding succeeds
UpdateDeleteRoleBindingOk ==
    /\ update.pc = "bind"
    /\ ~update.public
    /\ bindingStore' = bindingStore \ {WildcardName}
    /\ update' = [update EXCEPT !.pc = "project"]
    /\ UNCHANGED <<project, call, sharedVars, compileVars, readerVars, genVars, helmVars>>

\* lines 77-80: DeleteRoleBinding fails and UpdateProject returns the error
UpdateDeleteRoleBindingFail ==
    /\ update.pc = "bind"
    /\ ~update.public
    /\ update' = [update EXCEPT !.pc = "returned", !.err = "rolebinding"]
    /\ UNCHANGED <<bindingStore, project, call, sharedVars, compileVars, readerVars, genVars, helmVars>>

\* lines 81-87: the project is public and CreateOrUpdateRoleBinding succeeds
UpdateCreateOrUpdateRoleBindingOk ==
    /\ update.pc = "bind"
    /\ update.public
    /\ bindingStore' = bindingStore \cup {WildcardName}
    /\ update' = [update EXCEPT !.pc = "project"]
    /\ UNCHANGED <<project, call, sharedVars, compileVars, readerVars, genVars, helmVars>>

\* lines 87-90: CreateOrUpdateRoleBinding fails and UpdateProject returns the
\* error
UpdateCreateOrUpdateRoleBindingFail ==
    /\ update.pc = "bind"
    /\ update.public
    /\ update' = [update EXCEPT !.pc = "returned", !.err = "rolebinding"]
    /\ UNCHANGED <<bindingStore, project, call, sharedVars, compileVars, readerVars, genVars, helmVars>>

\* lines 93, 99: the project service updates the project
AslanUpdateProjectOk ==
    /\ update.pc = "project"
    /\ update' = [update EXCEPT !.pc = "returned"]
    /\ UNCHANGED <<bindingStore, project, call, sharedVars, compileVars, readerVars, genVars, helmVars>>

\* lines 93-97: the project service fails and UpdateProject returns the error
AslanUpdateProjectFail ==
    /\ update.pc = "project"
    /\ update' = [update EXCEPT !.pc = "returned", !.err = "project"]
    /\ UNCHANGED <<bindingStore, project, call, sharedVars, compileVars, readerVars, genVars, helmVars>>

\* the services before the UpdateProject calls: the project exists
InitUpdate ==
    /\ InitBundle
    /\ InitHelmIdle
    /\ store = NoStore
    /\ tables = NoTables
    /\ aliased = FALSE
    /\ compiled = NoOutput
    /\ bindingStore \in SUBSET StoredNames
    /\ project = "created"
    /\ call = NoCall
    /\ update = NoUpdate

NextUpdate ==
    \/ \E public \in BOOLEAN : CallUpdateProject(public)
    \/ UpdateDeleteRoleBindingOk
    \/ UpdateDeleteRoleBindingFail
    \/ UpdateCreateOrUpdateRoleBindingOk
    \/ UpdateCreateOrUpdateRoleBindingFail
    \/ AslanUpdateProjectOk
    \/ AslanUpdateProjectFail

SpecUpdate == InitUpdate /\ [][NextUpdate]_vars

(* ------------------- UpdateProject: properties ------------------------- *)

\* C31: UpdateProject leaves bindings unchanged on failure. Whenever
\* UpdateProject has returned an error, the read-only binding of everyone is
\* in the policy store exactly if it was there when the call began.
C31_BindingsUnchangedOnFailure ==
    (update.pc = "returned" /\ update.err # "") =>
        ((WildcardName \in bindingStore) <=> update.before)

(* ------------------- CreateOrUpdateHelmServiceFromGitRepo -------------- *)

\* the most paths of one call
MaxPaths == 2

\* the paths a call may name
ChartPaths == {"/a", "b"}

\* strings.TrimLeft(p, "/") on the paths of ChartPaths
TrimLeft(p) == IF p = "/a" THEN "a" ELSE p

\* chart.Name of the Chart.yaml under a path, as readChartYAML returns it
ChartName(filePath) == IF filePath = "a" THEN "svc-a" ELSE "svc-b"

SourceFromPublicRepo == "publicRepo"
SourceFromCodehost == "gitlab"

\* publicArgs.RepoLink of a public repository
PublicRepoLink == <<"public">>

\* line 441: the link built from the code host, the repository and a path
TreeLink(filePath) == <<"tree", filePath>>

\* an unused slot of the backing array of helmRenderCharts
NoChart == [ServiceName |-> "", by |-> 0]

Goroutines == DOMAIN routine

\* the calls a behaviour may begin with
InitHelm ==
    /\ InitBundle
    /\ InitProjectIdle
    /\ InitHelmIdle
    /\ store = NoStore
    /\ tables = NoTables
    /\ aliased = FALSE
    /\ compiled = NoOutput

\* lines 360-392: the arguments are taken apart, the source is found, the
\* slice is made with room for every path and one goroutine is started per
\* path with its own filePath
CallHelm(paths, public) ==
    /\ helm.pc = "idle"
    /\ helm' = [pc |-> "wait",
                paths |-> paths,
                source |-> IF public THEN SourceFromPublicRepo ELSE SourceFromCodehost]
    /\ repoLink' = IF public THEN PublicRepoLink ELSE <<>>
    /\ helmRenderCharts' = [array |-> [i \in DOMAIN paths |-> NoChart], len |-> 0]
    /\ routine' = [i \in DOMAIN paths |->
                      [pc |-> "load", filePath |-> TrimLeft(paths[i]), serviceName |-> "",
                       finalErr |-> FALSE, n |-> 0]]
    /\ UNCHANGED <<response, services, handed, sharedVars, compileVars, readerVars, genVars, projectVars>>

\* lines 363-384: the arguments are invalid or the code host is not found;
\* the call returns the error and no response
CallHelmFail ==
    /\ helm.pc = "idle"
    /\ helm' = [helm EXCEPT !.pc = "failed"]
    /\ UNCHANGED <<routine, repoLink, helmRenderCharts, response, services, handed,
                   sharedVars, compileVars, readerVars, genVars, projectVars>>

\* lines 414-429: the download or the reading of the chart fails
DownloadFail(g) ==
    /\ routine[g].pc = "load"
    /\ routine' = [routine EXCEPT ![g].pc = "report", ![g].finalErr = TRUE]
    /\ UNCHANGED <<helm, repoLink, helmRenderCharts, response, services, handed,
                   sharedVars, compileVars, readerVars, genVars, projectVars>>

\* lines 414-438: the chart is read, which names the service, and
\* SaveAndUploadService fails
SaveAndUploadFail(g) ==
    /\ routine[g].pc = "load"
    /\ routine' = [routine EXCEPT ![g].pc = "report",
                                  ![g].serviceName = ChartName(routine[g].filePath),
                                  ![g].finalErr = TRUE]
    /\ UNCHANGED <<helm, repoLink, helmRenderCharts, response, services, handed,
                   sharedVars, compileVars, readerVars, genVars, projectVars>>

\* lines 414-438: the chart is read and its files are saved
SaveAndUploadOk(g) ==
    /\ routine[g].pc = "load"
    /\ routine' = [routine EXCEPT ![g].pc = "link",
                                  ![g].serviceName = ChartName(routine[g].filePath)]
    /\ UNCHANGED <<helm, repoLink, helmRenderCharts, response, services, handed,
                   sharedVars, compileVars, readerVars, genVars, projectVars>>

\* lines 440-442: unless the repository is public, the goroutine assigns the
\* link of its path to the repoLink of the call, without a lock
SetRepoLink(g) ==
    /\ routine[g].pc = "link"
    /\ repoLink' = IF helm.source # SourceFromPublicRepo
                     THEN TreeLink(routine[g].filePath)
                     ELSE repoLink
    /\ routine' = [routine EXCEPT ![g].pc = "create"]
    /\ UNCHANGED <<helm, helmRenderCharts, response, services, handed,
                   sharedVars, compileVars, readerVars, genVars, projectVars>>

\* lines 444-462, 732-798: createOrUpdateHelmService stores the service with
\* SrcPath: the repoLink of the call as it is now
CreateServiceOk(g) ==
    /\ routine[g].pc = "create"
    /\ services' = services \cup {[ServiceName |-> routine[g].serviceName,
                                   LoadPath |-> routine[g].filePath,
                                   SrcPath |-> repoLink,
                                   by |-> g]}
    /\ routine' = [routine EXCEPT ![g].pc = "append"]
    /\ UNCHANGED <<helm, repoLink, helmRenderCharts, response, handed,
                   sharedVars, compileVars, readerVars, genVars, projectVars>>

\* lines 463-467: createOrUpdateHelmService fails, before it stored the
\* service (lines 733-759) or after (lines 786-795)
CreateServiceFail(g, stored) ==
    /\ routine[g].pc = "create"
    /\ services' = IF stored
                     THEN services \cup {[ServiceName |-> routine[g].serviceName,
                                          LoadPath |-> routine[g].filePath,
                                          SrcPath |-> repoLink,
                                          by |-> g]}
                     ELSE services
    /\ routine' = [routine EXCEPT ![g].pc = "report", ![g].finalErr = TRUE]
    /\ UNCHANGED <<helm, repoLink, helmRenderCharts, response, handed,
                   sharedVars, compileVars, readerVars, genVars, projectVars>>

\* line 469, first half: append reads the length of helmRenderCharts, without
\* a lock
AppendRead(g) ==
    /\ routine[g].pc = "append"
    /\ routine' = [routine EXCEPT ![g].pc = "store", ![g].n = helmRenderCharts.len]
    /\ UNCHANGED <<helm, repoLink, helmRenderCharts, response, services, handed,
                   sharedVars, compileVars, readerVars, genVars, projectVars>>

\* lines 469-473, second half: append writes the chart into the slot after
\* the length it read and assigns the slice with that length plus one
AppendStore(g) ==
    /\ routine[g].pc = "store"
    /\ helmRenderCharts' =
           [array |-> [helmRenderCharts.array EXCEPT ![routine[g].n + 1] =
                          [ServiceName |-> routine[g].serviceName, by |-> g]],
            len |-> routine[g].n + 1]
    /\ routine' = [routine EXCEPT ![g].pc = "report"]
    /\ UNCHANGED <<helm, repoLink, response, services, handed,
                   sharedVars, compileVars, readerVars, genVars, projectVars>>

\* lines 399-410: the deferred function, under the lock, appends the path to
\* FailedServices or the service name to SuccessServices; the goroutine ends
Report(g) ==
    /\ routine[g].pc = "report"
    /\ response' = IF routine[g].finalErr
                     THEN [response EXCEPT !.FailedServices =
                              Append(@, [Path |-> routine[g].filePath, by |-> g])]
                     ELSE [response EXCEPT !.SuccessServices =
                              Append(@, [name |-> routine[g].serviceName, by |-> g])]
    /\ routine' = [routine EXCEPT ![g].pc = "done"]
    /\ UNCHANGED <<helm, repoLink, helmRenderCharts, services, handed,
                   sharedVars, compileVars, readerVars, genVars, projectVars>>

WaitAndReturnEarly ==
    /\ helm.pc = "wait"
    /\ \E g \in Goroutines : routine[g].pc = "done"
    /\ handed' = SubSeq(helmRenderCharts.array, 1, helmRenderCharts.len)
    /\ helm' = [helm EXCEPT !.pc = "returned"]
    /\ UNCHANGED <<routine, repoLink, helmRenderCharts, response, services,
                   sharedVars, compileVars, readerVars, genVars, projectVars>>
\* lines 477-480: wg.Wait returns once every goroutine has ended; the slice
\* is handed to compareHelmVariable and the response is returned
WaitAndReturn ==
    /\ helm.pc = "wait"
    /\ \A g \in Goroutines : routine[g].pc = "done"
    /\ handed' = SubSeq(helmRenderCharts.array, 1, helmRenderCharts.len)
    /\ helm' = [helm EXCEPT !.pc = "returned"]
    /\ UNCHANGED <<routine, repoLink, helmRenderCharts, response, services,
                   sharedVars, compileVars, readerVars, genVars, projectVars>>

NextHelm ==
    \/ \E paths \in SeqsUpTo(ChartPaths, MaxPaths), public \in BOOLEAN : CallHelm(paths, public)
    \/ CallHelmFail
    \/ \E g \in Goroutines : DownloadFail(g)
    \/ \E g \in Goroutines : SaveAndUploadFail(g)
    \/ \E g \in Goroutines : SaveAndUploadOk(g)
    \/ \E g \in Goroutines : SetRepoLink(g)
    \/ \E g \in Goroutines : CreateServiceOk(g)
    \/ \E g \in Goroutines, stored \in BOOLEAN : CreateServiceFail(g, stored)
    \/ \E g \in Goroutines : AppendRead(g)
    \/ \E g \in Goroutines : AppendStore(g)
    \/ \E g \in Goroutines : Report(g)
    \/ WaitAndReturn

SpecHelm == InitHelm /\ [][NextHelm]_vars

(* ------------------- CreateOrUpdateHelmServiceFromGitRepo: properties -- *)

\* the goroutines a list of entries names
ReportedBy(list) == {list[k].by : k \in DOMAIN list}

\* how many entries of a list are of goroutine g
EntriesOf(list, g) == Cardinality({k \in DOMAIN list : list[k].by = g})

\* C32: bulk Helm creation reports every path once. When the call has
\* returned its response, every goroutine has ended, and every requested
\* path has exactly one entry: its service name in SuccessServices or its
\* path in FailedServices.
C32_EveryPathOnce ==
    helm.pc = "returned" =>
        /\ \A g \in Goroutines : routine[g].pc = "done"
        /\ Goroutines = DOMAIN helm.paths
        /\ \A g \in Goroutines :
               /\ EntriesOf(response.SuccessServices, g) + EntriesOf(response.FailedServices, g) = 1
               /\ routine[g].filePath = TrimLeft(helm.paths[g])
        /\ \A k \in DOMAIN response.SuccessServices :
               response.SuccessServices[k].name = ChartName(routine[response.SuccessServices[k].by].filePath)
        /\ \A k \in DOMAIN response.FailedServices :
               response.FailedServices[k].Path = routine[response.FailedServices[k].by].filePath
        /\ Len(response.SuccessServices) + Len(response.FailedServices) = Len(helm.paths)

\* the case of C32: a call of two paths has returned, one service made and
\* one failed, the failed one reported first
C32_Witness ==
    /\ helm.pc = "returned"
    /\ helm.paths = <<"/a", "b">>
    /\ Len(response.SuccessServices) = 1
    /\ Len(response.FailedServices) = 1
    /\ response.FailedServices[1].Path = "a"
    /\ response.SuccessServices[1].name = "svc-b"

\* every service of SuccessServices has exactly one render chart in the list
\* handed to compareHelmVariable
OneChartPerSuccess ==
    \A g \in ReportedBy(response.SuccessServices) : EntriesOf(handed, g) = 1

\* the services of SuccessServices made from a code host repository are
\* recorded with the link built from their own path
OwnSourceLink ==
    helm.source = SourceFromCodehost =>
        \A s \in services :
            s.by \in ReportedBy(response.SuccessServices) => s.SrcPath = TreeLink(s.LoadPath)

\* C33: no lost render chart. When the call has returned, the list handed to
\* compareHelmVariable has exactly one entry for every service of
\* SuccessServices, and the source link recorded for each of these services
\* is the one built from its own path.
C33_NoLostRenderChart ==
    helm.pc = "returned" => (OneChartPerSuccess /\ OwnSourceLink)

====
